---- MODULE Spec2Model ----
(***************************************************************************)
(* A model of the tapstack userspace TCP stack: the TCB of src/tcp.rs      *)
(* (TcpSocket) and the four-tuple table of src/tun.rs (TunDevice).         *)
(*                                                                         *)
(* Sequence numbers are u32 in the source.  TLC's integers cannot hold     *)
(* 2^32, so the sequence space is scaled to SeqMod values; every           *)
(* wrapping_add of the source is taken modulo SeqMod and every plain `+`   *)
(* on a sequence number overflows at SeqMod.  Ports keep their real u16    *)
(* width.  Instants are kept as ages (now - instant) in milliseconds; the  *)
(* f64 seconds of the RTO estimator are milliseconds with integer          *)
(* division.  A byte is modelled by its index in the stream it belongs to. *)
(***************************************************************************)
EXTENDS Integers, Sequences, FiniteSets, TLC

VARIABLES
    tcb,              \* the TcpSocket (all fields of the struct that change)
    overflow_checks,  \* build profile: TRUE = arithmetic overflow panics
    panicked,         \* the thread holding the TCB lock panicked
    out,              \* datagrams handed to transmit_payload by the last step
    lastOp,           \* the last operation: its name, input and result
    peer,             \* the remote end: its stream length and its ISS
    delivered,        \* all bytes TcpSocket::read has returned, in order
    app_sent,         \* number of bytes TcpSocket::write has accepted
    quad_to_socket,   \* TunDevice: the keys of the four-tuple table
    tun_panicked,     \* a thread panicked under the table lock (poisoned)
    table_lock,       \* the thread holding the quad_to_socket mutex, or NoThread
    tcb_lock,         \* the thread holding the TCB's mutex, or NoThread
    pc,               \* where each thread is in its code
    wbuf,             \* per thread: bytes of its handle.write not yet accepted
    hret              \* per thread: what its last handle call returned

vars == << tcb, overflow_checks, panicked, out, lastOp, peer, delivered,
           app_sent, quad_to_socket, tun_panicked, table_lock, tcb_lock, pc,
           wbuf, hret >>

tcbVars == << tcb, overflow_checks, panicked, out, lastOp, peer, delivered,
              app_sent >>
thrVars == << table_lock, tcb_lock, pc, wbuf, hret >>
tunVars == << quad_to_socket, tun_panicked, thrVars >>

----------------------------------------------------------------------------
(* Bounds of the model *)

\* size of the (scaled) sequence space; 2^32 in the source
SeqMod == 8
\* number of bytes in the peer's stream (its FIN follows them)
MaxStream == 1
\* number of bytes in the peer's stream in the receive-path specification
MaxRecvStream == 10
\* longest payload of one inbound segment
MaxSegLen == 3
\* total number of bytes the application writes
MaxWritten == 2
\* largest window the peer advertises in its SYN-ACK
MaxWindow == 2
\* largest age (ms) a timer's instant may reach before the clock stops
MaxAge == 2000
\* the same, in the specification of the SYN retransmissions
MaxSynAge == 64000
\* how far from the next expected byte the peer's segments start in SpecRecv
RecvSpread == 2
\* bytes written and window in the specification of the send path
MaxSendWritten == 3
MaxSendWindow == 3
\* largest number of entries of the four-tuple table
MaxConns == 3

----------------------------------------------------------------------------
(* Program constants *)

InitialRto == 1000      \* rto: 1.0
RtoCap == 60000         \* (self.rto * 2.0).min(60.0)
RtoFloor == 1000        \* .max(1.0)
RttvarFloor == 10       \* .max(0.01)
TimeWaitSecs == 60      \* as_secs() > 60
InitialWindow == 65535  \* window_size: 0xFFFF
PortLow == 10000        \* rand::random_range(10000..=65535)
PortHigh == 65535
PortMod == 65536        \* u16

----------------------------------------------------------------------------
(* Helpers *)

Min(a, b) == IF a <= b THEN a ELSE b
Max(a, b) == IF a >= b THEN a ELSE b
Abs(a) == IF a < 0 THEN -a ELSE a

\* Option<T>
None == << >>
Some(x) == << x >>
IsSome(o) == o # << >>
Unwrap(o) == o[1]

\* u32::wrapping_add
wrapping_add(a, b) == (a + b) % SeqMod
\* u32 `+`: wraps in a release build, panics when overflow checks are on
Overflows(a, b) == a + b >= SeqMod

\* BTreeMap helpers
Insert(m, k, v) == [x \in (DOMAIN m) \cup {k} |-> IF x = k THEN v ELSE m[x]]
Retain(m, keep(_)) == [x \in {y \in DOMAIN m : keep(y)} |-> m[x]]
FirstKey(m) == CHOOSE k \in DOMAIN m : \A j \in DOMAIN m : k <= j
EmptyMap == << >>

\* bytes lo..hi of a stream, a byte being its index in the stream
Bytes(lo, hi) == [i \in 1..(hi - lo + 1) |-> lo + i - 1]


----------------------------------------------------------------------------
(* TcpSocket *)

\* TcpSocket::new; the tcb it builds
new(iss) ==
    [ send_unack |-> iss,
      send_next |-> wrapping_add(iss, 1),
      recv_next |-> 0,
      srtt |-> 0,
      rttvar |-> 0,
      rto |-> InitialRto,
      syn_seq |-> iss,
      fin_seq |-> None,
      send_window |-> << >>,
      recv_window |-> << >>,
      header |-> [ sequence_number |-> iss,
                   acknowledgment_number |-> 0,
                   fin |-> FALSE, syn |-> FALSE, rst |-> FALSE,
                   psh |-> FALSE, ack |-> FALSE,
                   window_size |-> InitialWindow ],
      state |-> "Listen",
      partial_segments |-> EmptyMap,
      timers |-> EmptyMap,
      time_wait_instant |-> None ]

\* TcpSocket::new panics on `sequence_number + 1`
new_panics(iss) == overflow_checks /\ Overflows(iss, 1)

\* the result of an operation on the TCB: the TCB after it, the datagrams it
\* queued on tx, its return value, and whether it panicked
\* a return value: an error kind ("" for none), a byte count, tick's cleanup
Ret(e, n, c) == [err |-> e, n |-> n, cleanup |-> c]
Res(t, o, r) == [tcb |-> t, out |-> o, ret |-> r, panic |-> FALSE]
Panic(t, o) ==
    [tcb |-> t, out |-> o, ret |-> Ret("panic", 0, FALSE), panic |-> TRUE]

\* TcpSocket::transmit_payload: the datagram queued on tx (snd_una, snd_nxt
\* and rcv_nxt record SND.UNA, SND.NXT and RCV.NXT at the moment of the call)
transmit_payload(t, header, payload) ==
    [ sequence_number |-> header.sequence_number,
      acknowledgment_number |-> header.acknowledgment_number,
      fin |-> header.fin, syn |-> header.syn, rst |-> header.rst,
      psh |-> header.psh, ack |-> header.ack,
      window_size |-> header.window_size,
      payload |-> payload,
      snd_una |-> t.send_unack,
      snd_nxt |-> t.send_next,
      rcv_nxt |-> t.recv_next ]

\* TcpSocket::connect
connect(t) ==
    LET t1 == [t EXCEPT !.header.syn = TRUE,
                        !.state = "SynSent",
                        !.timers = Insert(t.timers, t.syn_seq,
                                          [retransmitted |-> FALSE, age |-> 0])]
    IN Res(t1, << transmit_payload(t1, t1.header, << >>) >>, Ret("", 0, FALSE))

\* TcpSocket::set_state
set_state(t, s) ==
    [t EXCEPT !.time_wait_instant = IF s = "TimeWait" THEN Some(0) ELSE @,
              !.state = s]

\* the RTO the estimator would compute from srtt and rttvar
RtoOf(srtt, rttvar) == Max(srtt + Max(4 * rttvar, RttvarFloor), RtoFloor)

on_rtt_measurement_no_karn(t, ack) ==
    IF ack \notin DOMAIN t.timers THEN t
    ELSE
      LET r == t.timers[ack].age
          reset == t.srtt = 0 \/ t.rto > RtoOf(t.srtt, t.rttvar)
          srtt1 == IF reset THEN r ELSE (7 * t.srtt + r) \div 8
          rttvar1 == IF reset THEN r \div 2
                     ELSE (3 * t.rttvar + Abs(t.srtt - r)) \div 4
      IN [t EXCEPT !.srtt = srtt1, !.rttvar = rttvar1,
                   !.rto = RtoOf(srtt1, rttvar1)]

\* TcpSocket::on_rtt_measurement (RFC 6298)
on_rtt_measurement(t, ack) ==
    IF ack \notin DOMAIN t.timers THEN t
    ELSE IF t.timers[ack].retransmitted THEN t
    ELSE
      LET r == t.timers[ack].age
          reset == t.srtt = 0 \/ t.rto > RtoOf(t.srtt, t.rttvar)
          srtt1 == IF reset THEN r ELSE (7 * t.srtt + r) \div 8
          rttvar1 == IF reset THEN r \div 2
                     ELSE (3 * t.rttvar + Abs(t.srtt - r)) \div 4
      IN [t EXCEPT !.srtt = srtt1, !.rttvar = rttvar1,
                   !.rto = RtoOf(srtt1, rttvar1)]

\* the bytes of the ring from index begin up to index end, wrapping
RingSlice(w, begin, end) ==
    IF begin <= end
    THEN SubSeq(w, begin + 1, end)
    ELSE SubSeq(w, begin + 1, Len(w)) \o SubSeq(w, 1, end)

\* tick's first statement: self.timers.retain(|seq, _| *seq >= self.send_unack)
purge_timers_none(t) == t

purge_timers(t) ==
    [t EXCEPT !.timers = Retain(t.timers, LAMBDA seq : seq >= t.send_unack)]

backoff_uncapped(rto) == rto * 2

\* tick's backoff: rto = (rto * 2.0).min(60.0)
backoff(rto) == Min(rto * 2, RtoCap)

\* TcpSocket::tick; ret is whether the socket can be cleaned up
tick(t0) ==
    LET t == purge_timers(t0) IN
    IF DOMAIN t.timers # {} THEN
      LET seq == FirstKey(t.timers) IN
      IF t.timers[seq].age >= t.rto THEN
        LET t1 == [t EXCEPT !.timers[seq] = [retransmitted |-> TRUE, age |-> 0],
                            !.rto = backoff(t.rto)]
            header == [t1.header EXCEPT !.sequence_number = seq,
                                        !.psh = TRUE]
            len == Len(t1.send_window)
        IN IF seq = t1.syn_seq
           THEN Res(t1, << transmit_payload(t1, t1.header, << >>) >>, Ret("", 0, FALSE))
           ELSE IF IsSome(t1.fin_seq) /\ seq = Unwrap(t1.fin_seq)
           THEN Res(t1, << transmit_payload(t1, t1.header, << >>) >>, Ret("", 0, FALSE))
           ELSE IF len = 0
           THEN Panic(t1, << >>)     \* seq as usize % 0
           ELSE Res(t1,
                    << transmit_payload(t1, header,
                          RingSlice(t1.send_window, seq % len,
                                    t1.send_next % len)) >>,
                    Ret("", 0, FALSE))
      ELSE Res(t, << >>, Ret("", 0, FALSE))
    ELSE IF t.state = "FinWait1" THEN
      IF t.fin_seq = None
      THEN LET t1 == [t EXCEPT !.header.fin = TRUE,
                               !.header.sequence_number = t.send_next,
                               !.fin_seq = Some(t.send_next)]
           IN Res(t1, << transmit_payload(t1, t1.header, << >>) >>, Ret("", 0, FALSE))
      ELSE Res(t, << >>, Ret("", 0, FALSE))
    ELSE IF IsSome(t.time_wait_instant) THEN
      IF Unwrap(t.time_wait_instant) \div 1000 > TimeWaitSecs
      THEN Res(t, << >>, Ret("", 0, TRUE))
      ELSE Res(t, << >>, Ret("", 0, FALSE))
    ELSE Res(t, << >>, Ret("", 0, FALSE))

----------------------------------------------------------------------------
(* TcpSocket::on_packet *)

\* the ACK the TCB sends for its current state: a clone of the template with
\* SEQ = SND.NXT, ACK = RCV.NXT and the ACK flag
ack_header(t) ==
    [t.header EXCEPT !.sequence_number = t.send_next,
                     !.acknowledgment_number = t.recv_next,
                     !.ack = TRUE]

accept_syn_ack_keep_syn(t, pkt) ==
    [t EXCEPT
       !.recv_next = wrapping_add(pkt.sequence_number, 1),
       !.send_unack = pkt.acknowledgment_number,
       !.header.sequence_number = t.send_next,
       !.header.acknowledgment_number = wrapping_add(pkt.sequence_number, 1),
       !.header.ack = TRUE,
       !.header.window_size = pkt.window_size,
       !.send_window = [i \in 1..pkt.window_size |-> 0]]

\* what on_packet assigns when the SYN-ACK arrives, up to the resize of the
\* send window
accept_syn_ack(t, pkt) ==
    [t EXCEPT
       !.recv_next = wrapping_add(pkt.sequence_number, 1),
       !.send_unack = pkt.acknowledgment_number,
       !.header.sequence_number = t.send_next,
       !.header.acknowledgment_number = wrapping_add(pkt.sequence_number, 1),
       !.header.syn = FALSE,
       !.header.ack = TRUE,
       !.header.window_size = pkt.window_size,
       !.send_window = [i \in 1..pkt.window_size |-> 0]]

stray_ack_reset_keep_state(t, pkt) ==
    LET header == [t.header EXCEPT !.syn = FALSE, !.ack = FALSE,
                                   !.rst = TRUE,
                                   !.sequence_number =
                                       pkt.acknowledgment_number]
    IN Res(t, << transmit_payload(t, header, << >>) >>, Ret("", 0, FALSE))

\* on_packet in SYN_SENT, ACK number other than SND.NXT: a RST built from
\* the header template, and CLOSE_WAIT
stray_ack_reset(t, pkt) ==
    LET header == [t.header EXCEPT !.syn = FALSE, !.ack = FALSE,
                                   !.rst = TRUE,
                                   !.sequence_number =
                                       pkt.acknowledgment_number]
        t1 == set_state(t, "CloseWait")
    IN Res(t1, << transmit_payload(t1, header, << >>) >>, Ret("", 0, FALSE))

\* on_packet in SYN_SENT
on_packet_syn_sent(t, pkt) ==
    IF ~pkt.ack THEN Res(t, << >>, Ret("", 0, FALSE))
    ELSE IF pkt.rst THEN Res(set_state(t, "Closed"), << >>, Ret("", 0, FALSE))
    ELSE IF pkt.acknowledgment_number # t.send_next
    THEN stray_ack_reset(t, pkt)
    ELSE IF pkt.syn THEN
      LET t1 == accept_syn_ack(t, pkt)
          t2 == on_rtt_measurement(t1, pkt.acknowledgment_number)
          t3 == set_state(t2, "Established")
      IN Res(t3, << transmit_payload(t3, t3.header, << >>) >>,
             Ret("", 0, FALSE))
    ELSE Res(t, << >>, Ret("", 0, FALSE))

\* the acceptability test of the synchronized states (RFC 793, as coded)
acceptable(t, pkt) ==
    LET recv_seq_with_len == wrapping_add(t.recv_next, t.header.window_size)
        seq_with_len == wrapping_add(pkt.sequence_number,
                                     Max(Len(pkt.payload), 1) - 1)
    IN \/ /\ t.recv_next <= pkt.sequence_number
          /\ pkt.sequence_number < recv_seq_with_len
       \/ /\ t.recv_next <= seq_with_len
          /\ seq_with_len < recv_seq_with_len

\* the test that lets an acknowledgment number advance SND.UNA
ack_advances_no_lower(t, pkt) ==
    /\ t.send_unack # pkt.acknowledgment_number
    /\ pkt.acknowledgment_number <= t.send_next

ack_advances(t, pkt) ==
    /\ t.send_unack < pkt.acknowledgment_number
    /\ pkt.acknowledgment_number <= t.send_next

\* ACK processing: RTT sample, then SND.UNA := segment.ACK
process_ack(t, pkt) ==
    IF ack_advances(t, pkt)
    THEN [on_rtt_measurement(t, pkt.acknowledgment_number)
             EXCEPT !.send_unack = pkt.acknowledgment_number]
    ELSE t

\* `fin_acked` as on_packet computes it
fin_acked(t) == IsSome(t.fin_seq) /\ t.send_unack = Unwrap(t.fin_seq)

\* the merge loop: while let Some(pkt) = partial_segments.get(&recv_next);
\* fuel bounds the number of iterations (a chain of stored segments that
\* closes on itself would keep the loop running)
RECURSIVE merge_partial(_, _)
merge_partial(t, fuel) ==
    IF fuel = 0 \/ t.recv_next \notin DOMAIN t.partial_segments THEN t
    ELSE LET seg == t.partial_segments[t.recv_next]
         IN merge_partial(
              [t EXCEPT !.recv_window = @ \o seg,
                        !.recv_next = wrapping_add(@, Len(seg))],
              fuel - 1)

\* the pruning that follows the merge loop:
\* partial_segments.retain(|k, _| *k > self.recv_next)
prune_partial(t) ==
    [t EXCEPT !.partial_segments =
                 Retain(t.partial_segments, LAMBDA k : k > t.recv_next)]

\* payload processing; the TCB after it and the ACK it transmits
process_payload(t, pkt) ==
    IF pkt.payload # << >> /\ t.state \in {"Established", "FinWait1", "FinWait2"}
    THEN
      LET t1 == IF pkt.sequence_number = t.recv_next
                THEN prune_partial(merge_partial(
                       [t EXCEPT !.recv_window = @ \o pkt.payload,
                                 !.recv_next =
                                     wrapping_add(@, Len(pkt.payload))],
                       SeqMod))
                ELSE [t EXCEPT !.partial_segments =
                         Insert(@, pkt.sequence_number, pkt.payload)]
      IN [tcb |-> t1, out |-> << transmit_payload(t1, ack_header(t1), << >>) >>]
    ELSE [tcb |-> t, out |-> << >>]

\* the state a FIN with SEQ = RCV.NXT moves the TCB to
fin_transition(t, our_fin_acked) ==
    CASE t.state = "Established" -> set_state(t, "CloseWait")
      [] t.state = "FinWait1" ->
           IF our_fin_acked THEN set_state(t, "TimeWait") ELSE t
      [] t.state = "FinWait2" -> set_state(t, "TimeWait")
      [] t.state = "TimeWait" -> set_state(t, "TimeWait")
      [] OTHER -> t

\* FIN processing, after the payload
process_fin(t, o, pkt, our_fin_acked) ==
    IF pkt.fin /\ pkt.sequence_number = t.recv_next
    THEN IF overflow_checks /\ Overflows(t.recv_next, 1)
         THEN Panic(t, o)                     \* self.recv_next += 1
         ELSE LET t1 == [t EXCEPT !.recv_next = wrapping_add(@, 1)]
              IN Res(fin_transition(t1, our_fin_acked),
                     o \o << transmit_payload(t1, ack_header(t1), << >>) >>,
                     Ret("", 0, FALSE))
    ELSE Res(t, o, Ret("", 0, FALSE))

\* on_packet in ESTABLISHED, FIN_WAIT_1, FIN_WAIT_2, CLOSE_WAIT, CLOSING,
\* LAST_ACK and TIME_WAIT
on_packet_synchronized(t, pkt) ==
    IF ~acceptable(t, pkt) THEN
      IF ~pkt.rst
      THEN Res(t, << transmit_payload(t, ack_header(t), << >>) >>, Ret("", 0, FALSE))
      ELSE Res(t, << >>, Ret("", 0, FALSE))
    ELSE IF pkt.rst THEN
      IF pkt.sequence_number = t.recv_next
      THEN Res(set_state(t, "Closed"), << >>, Ret("", 0, FALSE))
      ELSE Res(t, << transmit_payload(t, ack_header(t), << >>) >>, Ret("", 0, FALSE))
    ELSE IF pkt.syn THEN Panic(t, << >>)      \* todo!()
    ELSE IF ~pkt.ack THEN Res(t, << >>, Ret("", 0, FALSE))
    ELSE
      LET t1 == process_ack(t, pkt)
          acked == fin_acked(t1)
      IN IF acked /\ t1.state = "LastAck"
         THEN Res(set_state(t1, "Closed"), << >>, Ret("", 0, FALSE))
         ELSE
           LET t2 == IF ~acked THEN t1
                     ELSE CASE t1.state = "FinWait1" ->
                                 set_state(t1, "FinWait2")
                            [] t1.state = "Closing" ->
                                 set_state(t1, "TimeWait")
                            [] t1.state = "TimeWait" ->
                                 set_state(t1, "TimeWait")
                            [] OTHER -> t1
               o2 == IF acked /\ t1.state = "TimeWait"
                     THEN << transmit_payload(t2,
                               [t2.header EXCEPT
                                  !.acknowledgment_number =
                                      pkt.sequence_number,
                                  !.ack = TRUE],
                               << >>) >>
                     ELSE << >>
               p == process_payload(t2, pkt)
           IN process_fin(p.tcb, o2 \o p.out, pkt, acked)

\* on_packet in CLOSED
on_packet_closed(t, pkt) ==
    IF ~pkt.rst THEN
      IF ~pkt.ack THEN
        IF overflow_checks /\ Overflows(pkt.sequence_number, Len(pkt.payload))
        THEN Panic(t, << >>)   \* pkt.sequence_number() + payload().len()
        ELSE Res(t,
                 << transmit_payload(t,
                      [t.header EXCEPT
                         !.rst = TRUE,
                         !.sequence_number = 0,
                         !.acknowledgment_number =
                             wrapping_add(pkt.sequence_number,
                                          Len(pkt.payload)),
                         !.ack = TRUE],
                      << >>) >>,
                 Ret("", 0, FALSE))
      ELSE Res(t,
               << transmit_payload(t,
                    [t.header EXCEPT
                       !.rst = TRUE,
                       !.sequence_number = pkt.acknowledgment_number],
                    << >>) >>,
               Ret("", 0, FALSE))
    ELSE Res(t, << >>, Ret("", 0, FALSE))

\* TcpSocket::on_packet
on_packet(t, pkt) ==
    CASE t.state \in {"Listen", "SynReceived"} -> Panic(t, << >>)  \* todo!()
      [] t.state = "SynSent" -> on_packet_syn_sent(t, pkt)
      [] t.state = "Closed" -> on_packet_closed(t, pkt)
      [] OTHER -> on_packet_synchronized(t, pkt)

----------------------------------------------------------------------------
(* TcpSocket::read, write, close *)

not_connected_closing(t) ==
    Res(set_state(t, "Closed"), << >>, Ret("NotConnected", 0, FALSE))

\* read and write outside their states: Err(NotConnected), nothing else
not_connected(t) == Res(t, << >>, Ret("NotConnected", 0, FALSE))

read_fail_first(t, n) ==
    IF t.state \notin {"Established", "FinWait1", "FinWait2", "CloseWait"}
    THEN not_connected(t) @@ [data |-> << >>]
    ELSE IF t.recv_window = << >>
    THEN Res(t, << >>, Ret("", 0, FALSE)) @@ [data |-> << >>]
    ELSE LET k == Min(n, Len(t.recv_window))
         IN Res([t EXCEPT !.recv_window = SubSeq(@, k + 1, Len(@))], << >>,
                Ret("", k, FALSE))
              @@ [data |-> SubSeq(t.recv_window, 1, k)]

\* TcpSocket::read with a buffer of n bytes; data is what it copies to buf
read(t, n) ==
    IF /\ t.state \notin {"Established", "FinWait1", "FinWait2", "CloseWait"}
       /\ t.recv_window = << >>
    THEN not_connected(t) @@ [data |-> << >>]
    ELSE IF t.recv_window = << >>
    THEN Res(t, << >>, Ret("", 0, FALSE)) @@ [data |-> << >>]
    ELSE LET k == Min(n, Len(t.recv_window))
         IN Res([t EXCEPT !.recv_window = SubSeq(@, k + 1, Len(@))], << >>,
                Ret("", k, FALSE))
              @@ [data |-> SubSeq(t.recv_window, 1, k)]

\* write's `available_capacity`
available_capacity(t, payload) ==
    LET len == Len(t.send_window)
        begin == t.send_unack % len
        end == t.send_next % len
    IN IF begin <= end
       THEN Min(len - (end - begin), Len(payload))
       ELSE begin - end

\* the ring after send_window[(end + idx) % len] = payload[idx], idx < n
ring_copy(w, end, payload, n) ==
    [i \in 1..Len(w) |->
        LET idx == ((i - 1) - end) % Len(w)
        IN IF idx < n THEN payload[idx + 1] ELSE w[i]]

\* TcpSocket::write
write(t, payload) ==
    IF t.state # "Established"
    THEN not_connected(t)
    ELSE IF Len(t.send_window) = 0 THEN Panic(t, << >>)  \* send_unack % 0
    ELSE
      LET len == Len(t.send_window)
          end == t.send_next % len
          n == available_capacity(t, payload)
      IN IF n > Len(payload)
         THEN \* payload[idx] out of bounds, after Len(payload) bytes are copied
              Panic([t EXCEPT !.send_window =
                        ring_copy(@, end, payload, Len(payload))], << >>)
         ELSE IF n > 0 THEN
           LET t1 == [t EXCEPT
                        !.send_window = ring_copy(@, end, payload, n),
                        !.timers = Insert(@, t.send_next,
                                     [retransmitted |-> FALSE, age |-> 0]),
                        !.header.sequence_number = t.send_next,
                        !.send_next = wrapping_add(@, n)]
               header == [t1.header EXCEPT !.psh = TRUE]
           IN Res(t1,
                  << transmit_payload(t1, header, SubSeq(payload, 1, n)) >>,
                  Ret("", n, FALSE))
         ELSE Res(t, << >>, Ret("", 0, FALSE))

\* TcpSocket::close
close(t) ==
    CASE t.state = "Established" -> Res(set_state(t, "FinWait1"), << >>, Ret("", 0, FALSE))
      [] t.state = "CloseWait" -> Res(set_state(t, "LastAck"), << >>, Ret("", 0, FALSE))
      [] OTHER -> Res(t, << >>, Ret("", 0, FALSE))

-----------------------------------------------
(* The environment of one TCB: the peer, the application, the clock *)

IssChoices == {0, SeqMod - 3, SeqMod - 1}
IrsChoices == {0}
Windows == {0, MaxWindow}
ReadSizes == {1, MaxRecvStream}

NoPkt == [sequence_number |-> 0, acknowledgment_number |-> 0,
          syn |-> FALSE, ack |-> FALSE, fin |-> FALSE, rst |-> FALSE,
          window_size |-> 0, payload |-> << >>]

Pkt(seq, ackn, flags, win, payload) ==
    [sequence_number |-> seq, acknowledgment_number |-> ackn,
     syn |-> "S" \in flags, ack |-> "A" \in flags,
     fin |-> "F" \in flags, rst |-> "R" \in flags,
     window_size |-> win, payload |-> payload]

\* sequence number of byte off of the peer's stream (0 is its SYN, len + 1
\* its FIN)
PeerSeq(off) == wrapping_add(peer.irs, off)

\* acknowledgment numbers the peer may send: around SND.UNA and SND.NXT
AckCands(t) ==
    { (t.send_unack + d + SeqMod) % SeqMod : d \in {-1, 0, 1} }
      \cup { (t.send_next + d + SeqMod) % SeqMod : d \in {0, 1} }

\* replies to our SYN, well-formed or not
HandshakePkts(t) ==
    { Pkt(PeerSeq(0), t.send_next, {"S", "A"}, w, << >>) : w \in Windows }
      \cup { Pkt(PeerSeq(0), a, f, MaxWindow, << >>) :
               a \in {t.send_next, wrapping_add(t.send_next, 1)},
               f \in {{"A"}, {"R", "A"}, {"S"}} }
      \cup { Pkt(PeerSeq(0), wrapping_add(t.send_next, 1), {"S", "A"},
                 MaxWindow, << >>) }

\* the slices (offset, length) of the peer's stream
Slices ==
    { x \in (1..(peer.len + 1)) \X (0..MaxSegLen) :
        x[1] + x[2] - 1 <= peer.len }

\* segments cut from the peer's stream: any offset and length, in order or
\* not, new or old, with the FIN only after the last byte
StreamPkts(t) ==
    UNION { { Pkt(PeerSeq(s[1]), a, f, MaxWindow,
                  Bytes(s[1], s[1] + s[2] - 1)) :
                a \in AckCands(t),
                f \in {{"A"}} \cup
                      (IF s[1] + s[2] = peer.len + 1 THEN {{"F", "A"}}
                       ELSE {}) } :
            s \in Slices }
      \cup { Pkt(PeerSeq(s[1]), 0, {}, MaxWindow,
                 Bytes(s[1], s[1] + s[2] - 1)) : s \in Slices }

\* resets, at any offset of the peer's stream
RstPkts(t) ==
    { Pkt(PeerSeq(off), t.send_next, f, MaxWindow, << >>) :
        off \in 0..(peer.len + 1), f \in {{"R"}, {"R", "A"}} }

InPkts(t) ==
    IF t.state \in {"Listen", "SynSent"}
    THEN HandshakePkts(t)
    ELSE StreamPkts(t) \cup RstPkts(t)
           \cup { Pkt(PeerSeq(0), t.send_next, {"S", "A"}, MaxWindow, << >>) }

\* the threads: the demux loop and the application threads
AppThreads == {"app", "app2"}
Threads == {"demux"} \cup AppThreads
NoThread == "none"

\* no handle call has returned yet
NoRet == [op |-> "", err |-> "", n |-> 0]

\* the demux loop polls, the first application thread has not called
\* TunDevice::connect, the second has no handle yet
InitThreads ==
    /\ table_lock = NoThread
    /\ tcb_lock = NoThread
    /\ pc = [th \in Threads |->
               IF th = "demux" THEN "poll"
               ELSE IF th = "app" THEN "start" ELSE "ready"]
    /\ wbuf = [th \in AppThreads |-> 0]
    /\ hret = [th \in AppThreads |-> NoRet]

\* what the last step was: the operation, its input and result, and the
\* state and SND.UNA it started from
Op(name, pkt, arg, ret, t) ==
    [op |-> name, pkt |-> pkt, arg |-> arg, ret |-> ret,
     st |-> t.state, una |-> t.send_unack]

\* apply the result r of operation `name` to the state; the input of the
\* operation is recorded in lastOp only when detail is set
Apply(name, pkt, arg, r, detail) ==
    /\ tcb' = r.tcb
    /\ out' = r.out
    /\ panicked' = r.panic
    /\ lastOp' = IF detail THEN Op(name, pkt, arg, r.ret, tcb)
                 ELSE Op(name, NoPkt, 0, r.ret, tcb)

InitEnv ==
    /\ out = << >>
    /\ lastOp = Op("new", NoPkt, 0, Ret("", 0, FALSE), tcb)
    /\ delivered = << >>
    /\ app_sent = 0
    /\ quad_to_socket = {}
    /\ tun_panicked = FALSE
    /\ InitThreads

\* TcpSocket::new has built the TCB
InitNew(isss, irss, len) ==
    /\ overflow_checks \in BOOLEAN
    /\ \E iss \in isss :
         /\ tcb = new(iss)
         /\ panicked = new_panics(iss)
    /\ peer \in [irs : irss, len : {len}]
    /\ InitEnv

Init == InitNew(IssChoices, IrsChoices, MaxStream)

\* TcpSocketWrapper::connect calls TcpSocket::connect on the new TCB
DoConnect(detail) ==
    /\ ~panicked /\ tcb.state = "Listen"
    /\ Apply("connect", NoPkt, 0, connect(tcb), detail)
    /\ UNCHANGED << overflow_checks, peer, delivered, app_sent, tunVars >>

\* the demux loop hands an inbound segment to the TCB
DoOnPacket(pkts, detail) ==
    /\ ~panicked
    /\ \E pkt \in pkts :
         Apply("on_packet", pkt, 0, on_packet(tcb, pkt), detail)
    /\ UNCHANGED << overflow_checks, peer, delivered, app_sent, tunVars >>

\* the demux loop's idle pass
DoTick(detail) ==
    /\ ~panicked
    /\ Apply("tick", NoPkt, 0, tick(tcb), detail)
    /\ UNCHANGED << overflow_checks, peer, delivered, app_sent, tunVars >>

\* the application reads
DoRead(sizes, detail) ==
    /\ ~panicked
    /\ \E n \in sizes :
         LET r == read(tcb, n)
         IN /\ Apply("read", NoPkt, n, r, detail)
            /\ delivered' = delivered \o r.data
    /\ UNCHANGED << overflow_checks, peer, app_sent, tunVars >>

\* the application writes the next bytes of its stream
DoWrite(maxWritten, detail) ==
    /\ ~panicked
    /\ \E p \in 1..(maxWritten - app_sent) :
         LET r == write(tcb, Bytes(app_sent + 1, app_sent + p))
         IN /\ Apply("write", NoPkt, p, r, detail)
            /\ app_sent' = app_sent + r.ret.n
    /\ UNCHANGED << overflow_checks, peer, delivered, tunVars >>

\* the application closes
DoClose(detail) ==
    /\ ~panicked
    /\ Apply("close", NoPkt, 0, close(tcb), detail)
    /\ UNCHANGED << overflow_checks, peer, delivered, app_sent, tunVars >>

\* ages of the instants in the retransmission queue
TimerAges(t) == { t.timers[k].age : k \in DOMAIN t.timers }

\* the clock advances by d ms
Elapse(t, d) ==
    [t EXCEPT !.timers = [k \in DOMAIN @ |-> [@[k] EXCEPT !.age = @ + d]],
              !.time_wait_instant = IF IsSome(@) THEN Some(Unwrap(@) + d)
                                    ELSE @]

\* time passes while a timer runs
AdvanceUpTo(maxAge, delays) ==
    /\ ~panicked
    /\ TimerAges(tcb) # {}
    /\ \E d \in delays :
         /\ \A a \in TimerAges(tcb) : a + d <= maxAge
         /\ tcb' = Elapse(tcb, d)
         /\ lastOp' = Op("advance", NoPkt, d, Ret("", 0, FALSE), tcb)
    /\ out' = << >>
    /\ UNCHANGED << overflow_checks, panicked, peer, delivered, app_sent,
                    tunVars >>

----------------------------------------------------------------------------
(* Spec: one connection over its whole life *)

Connect == DoConnect(FALSE)
OnPacket == DoOnPacket(InPkts(tcb), FALSE)
Tick == DoTick(FALSE)
Read == DoRead(ReadSizes, TRUE)
Write == DoWrite(MaxWritten, FALSE)
Close == DoClose(FALSE)
\* one RTO passes
Advance == AdvanceUpTo(MaxAge, {tcb.rto})

\* time passes in TIME_WAIT
AdvanceTimeWaitBy(delays) ==
    /\ ~panicked
    /\ IsSome(tcb.time_wait_instant)
    /\ Unwrap(tcb.time_wait_instant) = 0
    /\ \E d \in delays :
         /\ tcb' = Elapse(tcb, d)
         /\ lastOp' = Op("advance", NoPkt, d, Ret("", 0, FALSE), tcb)
    /\ out' = << >>
    /\ UNCHANGED << overflow_checks, panicked, peer, delivered, app_sent,
                    tunVars >>

\* 2 MSL and a second pass in TIME_WAIT
AdvanceTimeWait == AdvanceTimeWaitBy({(TimeWaitSecs + 1) * 1000})

Next ==
    \/ Connect \/ OnPacket \/ Tick \/ Read \/ Write \/ Close
    \/ Advance \/ AdvanceTimeWait

Spec == Init /\ [][Next]_vars

----------------------------------------------------------------------------
(* SpecSeg: the handling of single inbound segments, the segment recorded *)

SegConnect == DoConnect(TRUE)
SegOnPacket == DoOnPacket(InPkts(tcb), TRUE)
SegClose == DoClose(TRUE)

NextSeg == SegConnect \/ SegOnPacket \/ SegClose

InitSeg == InitNew(IssChoices, {0, SeqMod - 2}, MaxStream)

SpecSeg == InitSeg /\ [][NextSeg]_vars

----------------------------------------------------------------------------
(* SpecRto: the retransmissions of an unanswered SYN *)

RtoConnect == DoConnect(FALSE)
RtoTick == DoTick(FALSE)
RtoAdvance == AdvanceUpTo(MaxSynAge, {1000, tcb.rto})

NextRto == RtoConnect \/ RtoTick \/ RtoAdvance

SpecRto == Init /\ [][NextRto]_vars

----------------------------------------------------------------------------
(* Specifications that start from an established connection *)

\* the TCB after TcpSocket::new, connect and the peer's SYN-ACK
Established(iss, irs, w) ==
    on_packet(connect(new(iss)).tcb,
              Pkt(irs, wrapping_add(iss, 1), {"S", "A"}, w, << >>)).tcb

InitEstablished(isss, irss, ws, len) ==
    /\ overflow_checks \in BOOLEAN
    /\ \E iss \in isss, irs \in irss, w \in ws :
         /\ ~new_panics(iss)
         /\ peer = [irs |-> irs, len |-> len]
         /\ tcb = Established(iss, irs, w)
    /\ panicked = FALSE
    /\ InitEnv

----------------------------------------------------------------------------
(* SpecSend: the send path: writes, acknowledgments, retransmissions *)

\* pure ACKs, acceptable or not
AckPkts(t) ==
    { Pkt(PeerSeq(off), a, {"A"}, MaxWindow, << >>) :
        off \in {0, 1}, a \in AckCands(t) }

InitSend ==
    InitEstablished({0, SeqMod - 3}, {0}, {MaxSendWindow - 1, MaxSendWindow}, 0)

SendWrite == DoWrite(MaxSendWritten, TRUE)
SendOnPacket == DoOnPacket(AckPkts(tcb), FALSE)
SendTick == DoTick(FALSE)
SendAdvance == AdvanceUpTo(MaxAge, {tcb.rto})

NextSend == SendWrite \/ SendOnPacket \/ SendTick \/ SendAdvance

SpecSend == InitSend /\ [][NextSend]_vars

----------------------------------------------------------------------------
(* SpecRecv: the receive path: data segments in any order, and reads *)

\* number of bytes of the peer's stream the TCB has taken in
TakenIn == Len(delivered) + Len(tcb.recv_window)

\* data segments cut from the peer's stream, starting at most RecvSpread
\* bytes before or after the first byte the TCB has not taken in
DataPkts(t) ==
    { Pkt(PeerSeq(s[1]), t.send_next, {"A"}, MaxWindow,
          Bytes(s[1], s[1] + s[2] - 1)) :
        s \in { x \in Slices : /\ x[2] > 0
                               /\ x[1] >= TakenIn + 1 - RecvSpread
                               /\ x[1] <= TakenIn + 1 + RecvSpread } }

InitRecv ==
    InitEstablished({0}, {SeqMod - 4}, {MaxWindow}, MaxRecvStream)

RecvOnPacket == DoOnPacket(DataPkts(tcb), FALSE)
RecvRead == DoRead({MaxRecvStream}, FALSE)

NextRecv == RecvOnPacket \/ RecvRead

SpecRecv == InitRecv /\ [][NextRecv]_vars

----------------------------------------------------------------------------
(* SpecClose: the active close of an established connection *)

\* what the peer sends while we close: pure ACKs, before and after its
\* FIN, and its FIN, which follows its ISS at once
ClosePkts(t) ==
    { Pkt(PeerSeq(1), a, f, MaxWindow, << >>) :
        a \in AckCands(t), f \in {{"A"}, {"F", "A"}} }
      \cup { Pkt(PeerSeq(2), a, {"A"}, MaxWindow, << >>) : a \in AckCands(t) }

\* time spent in TIME_WAIT before a tick: 60.5 s and 61 s
TimeWaitDelays == {TimeWaitSecs * 1000 + 500, (TimeWaitSecs + 1) * 1000}

InitClose == InitEstablished({0}, {0}, {MaxWindow}, 0)

CloseWrite == DoWrite(MaxWritten, TRUE)
CloseOnPacket == DoOnPacket(ClosePkts(tcb), TRUE)
CloseTick == DoTick(TRUE)
CloseClose == DoClose(TRUE)
CloseAdvance == AdvanceUpTo(MaxAge, {tcb.rto})
CloseAdvanceTimeWait == AdvanceTimeWaitBy(TimeWaitDelays)

NextClose ==
    \/ CloseWrite \/ CloseOnPacket \/ CloseTick \/ CloseClose
    \/ CloseAdvance \/ CloseAdvanceTimeWait

SpecClose == InitClose /\ [][NextClose]_vars

\* the close path while the demux loop keeps running: poll times out every
\* 10 ms without traffic, so the idle pass ticks the TCB again and again
SpecCloseFair == InitClose /\ [][NextClose]_vars /\ WF_vars(CloseTick)

----------------------------------------------------------------------------
(* SpecAcc: the acceptability test, for every RCV.NXT of the sequence space *)

\* segments with any sequence number, empty or with one byte; a byte only
\* while nothing is buffered, so that the buffers stay small
AccPkts(t) ==
    { Pkt(seq, t.send_next, {"A"}, MaxWindow, Bytes(1, len)) :
        seq \in 0..(SeqMod - 1),
        len \in IF t.recv_window = << >> /\ DOMAIN t.partial_segments = {}
                THEN {0, 1} ELSE {0} }

InitAcc ==
    InitEstablished({0}, 0..(SeqMod - 1), 0..MaxWindow, MaxStream)

AccOnPacket == DoOnPacket(AccPkts(tcb), TRUE)
AccRead == DoRead({MaxRecvStream}, FALSE)

NextAcc == AccOnPacket \/ AccRead

SpecAcc == InitAcc /\ [][NextAcc]_vars

----------------------------------------------------------------------------
(* TunDevice::connect and the four-tuple table *)

PortCands == {PortLow, PortHigh - 1, PortHigh}
Remotes == {1, 2}

LocalPorts(table) == { q.local : q \in table }

\* the scan of TunDevice::connect: while a key has the candidate as its
\* local port, local_addr.set_port(local_addr.port() + 1); the result is the
\* port left when the scan ends, or a panic of the u16 addition
RECURSIVE scan_ports(_, _, _)
scan_ports(table, port, fuel) ==
    IF port \notin LocalPorts(table) \/ fuel = 0
    THEN [port |-> port, panic |-> FALSE]
    ELSE IF port + 1 >= PortMod
    THEN IF overflow_checks
         THEN [port |-> port, panic |-> TRUE]
         ELSE scan_ports(table, (port + 1) % PortMod, fuel - 1)
    ELSE scan_ports(table, port + 1, fuel - 1)

\* TunDevice::connect up to the insert into quad_to_socket
TunConnect ==
    /\ ~tun_panicked
    /\ Cardinality(quad_to_socket) < MaxConns
    /\ \E cand \in PortCands, remote \in Remotes :
         LET r == scan_ports(quad_to_socket, cand, MaxConns + 1)
         IN /\ tun_panicked' = r.panic
            /\ quad_to_socket' =
                 IF r.panic THEN quad_to_socket
                 ELSE quad_to_socket
                        \cup {[local |-> r.port, remote |-> remote]}
    /\ UNCHANGED << tcbVars, thrVars >>

NextTun == TunConnect

SpecTun == Init /\ [][NextTun]_vars

----------------------------------------------------------------------------
(* SpecThreads: the demux loop and the application threads, with the two *)
(* mutexes and the condition variable                                     *)

\* segments of a peer that follows the connection
ThrPkts(t) ==
    IF t.state \in {"Listen", "SynSent"}
    THEN { Pkt(PeerSeq(0), t.send_next, {"S", "A"}, 1, << >>) }
    ELSE { Pkt(PeerSeq(1), t.send_next, {"A"}, MaxWindow, Bytes(1, peer.len)),
           Pkt(PeerSeq(peer.len + 1), t.send_next, {"F", "A"}, MaxWindow,
               << >>),
           Pkt(t.recv_next, t.send_next, {"R"}, MaxWindow, << >>) }

SetPc(th, at) == [pc EXCEPT ![th] = at]

\* MutexGuard dropped while the thread panics: the mutex is poisoned
Poison(flag, panic) == flag \/ panic

\* the holder of the TCB mutex while th is inside Condvar::wait
condvar_wait_holding(th) == th
condvar_wait(th) == NoThread

\* TunDevice::connect has returned the handle
HandleExists == hret["app"].op # ""

\* read_packets: poll returned, self.quad_to_socket.lock().unwrap()
DemuxLock(at) ==
    /\ pc["demux"] = "poll"
    /\ table_lock = NoThread
    /\ IF tun_panicked
       THEN /\ pc' = SetPc("demux", "dead")
            /\ UNCHANGED table_lock
       ELSE /\ pc' = SetPc("demux", at)
            /\ table_lock' = "demux"
    /\ UNCHANGED << tcbVars, quad_to_socket, tun_panicked, tcb_lock, wbuf,
                    hret >>

\* read_packets: socket.lock().unwrap() on the table's entry, or no entry
DemuxSocketLock(from, to) ==
    /\ pc["demux"] = from
    /\ IF quad_to_socket = {}
       THEN /\ pc' = SetPc("demux", "poll")
            /\ table_lock' = NoThread
            /\ UNCHANGED << tcb_lock, tun_panicked >>
       ELSE /\ tcb_lock = NoThread
            /\ IF panicked
               THEN /\ pc' = SetPc("demux", "dead")
                    /\ table_lock' = NoThread
                    /\ tun_panicked' = TRUE
                    /\ UNCHANGED tcb_lock
               ELSE /\ pc' = SetPc("demux", to)
                    /\ tcb_lock' = "demux"
                    /\ UNCHANGED << table_lock, tun_panicked >>
    /\ UNCHANGED << tcbVars, quad_to_socket, wbuf, hret >>

\* read_packets: the TCB operation, then both guards are dropped
DemuxOp(from, name, pkts) ==
    /\ pc["demux"] = from
    /\ \E pkt \in pkts :
         LET r == IF name = "tick" THEN tick(tcb) ELSE on_packet(tcb, pkt)
         IN /\ Apply(name, pkt, 0, r, FALSE)
            /\ pc' = SetPc("demux", IF r.panic THEN "dead" ELSE "poll")
            /\ tun_panicked' = Poison(tun_panicked, r.panic)
    /\ tcb_lock' = NoThread
    /\ table_lock' = NoThread
    /\ UNCHANGED << overflow_checks, peer, delivered, app_sent,
                    quad_to_socket, wbuf, hret >>

DemuxIdleLock == DemuxLock("idle_table")
DemuxIdleSocketLock == DemuxSocketLock("idle_table", "idle_tcb")
DemuxIdleTick == DemuxOp("idle_tcb", "tick", {NoPkt})
DemuxPktLock == DemuxLock("pkt_table")
DemuxPktSocketLock == DemuxSocketLock("pkt_table", "pkt_tcb")
DemuxOnPacket == DemuxOp("pkt_tcb", "on_packet", ThrPkts(tcb))

\* TunDevice::connect: self.quad_to_socket.lock().unwrap()
AppConnLock ==
    /\ pc["app"] = "start"
    /\ table_lock = NoThread
    /\ IF tun_panicked
       THEN /\ pc' = SetPc("app", "dead")
            /\ UNCHANGED table_lock
       ELSE /\ pc' = SetPc("app", "conn_table")
            /\ table_lock' = "app"
    /\ UNCHANGED << tcbVars, quad_to_socket, tun_panicked, tcb_lock, wbuf,
                    hret >>

\* TunDevice::connect: the port scan, TcpSocket::new, the insert and the
\* drop of the table guard
AppConnInsert ==
    /\ pc["app"] = "conn_table"
    /\ \E cand \in {PortLow} :
         LET r == scan_ports(quad_to_socket, cand, MaxConns + 1)
             panic == r.panic \/ new_panics(tcb.syn_seq)
         IN /\ tun_panicked' = panic
            /\ quad_to_socket' =
                 IF panic THEN quad_to_socket
                 ELSE quad_to_socket \cup {[local |-> r.port, remote |-> 1]}
            /\ pc' = SetPc("app", IF panic THEN "dead" ELSE "conn_unlocked")
    /\ table_lock' = NoThread
    /\ UNCHANGED << tcbVars, tcb_lock, wbuf, hret >>

\* TcpSocketWrapper::connect: self.socket.lock().unwrap()
AppConnSocketLock ==
    /\ pc["app"] = "conn_unlocked"
    /\ tcb_lock = NoThread
    /\ IF panicked
       THEN /\ pc' = SetPc("app", "dead")
            /\ UNCHANGED tcb_lock
       ELSE /\ pc' = SetPc("app", "conn_tcb")
            /\ tcb_lock' = "app"
    /\ UNCHANGED << tcbVars, quad_to_socket, tun_panicked, table_lock, wbuf,
                    hret >>

\* TcpSocketWrapper::connect: socket.connect() and the first condition wait
AppSocketConnect ==
    /\ pc["app"] = "conn_tcb"
    /\ LET r == connect(tcb)
       IN /\ Apply("connect", NoPkt, 0, r, FALSE)
          /\ IF r.tcb.state = "Established"
             THEN /\ pc' = SetPc("app", "ready")
                  /\ hret' = [hret EXCEPT !["app"] =
                                [op |-> "connect", err |-> "", n |-> 0]]
                  /\ tcb_lock' = NoThread
             ELSE /\ pc' = SetPc("app", "conn_wait")
                  /\ tcb_lock' = condvar_wait("app")
                  /\ UNCHANGED hret
    /\ UNCHANGED << overflow_checks, peer, delivered, app_sent,
                    quad_to_socket, tun_panicked, table_lock, wbuf >>

\* TcpSocketWrapper::connect: the wait returns with the lock and the loop
\* finds Established (any other state puts the thread back to waiting)
AppConnWake ==
    /\ pc["app"] = "conn_wait"
    /\ tcb_lock \in {NoThread, "app"}
    /\ panicked \/ tcb.state = "Established"
    /\ IF panicked
       THEN /\ pc' = SetPc("app", "dead")
            /\ UNCHANGED hret
       ELSE /\ pc' = SetPc("app", "ready")
            /\ hret' = [hret EXCEPT !["app"] =
                          [op |-> "connect", err |-> "", n |-> 0]]
    /\ tcb_lock' = NoThread
    /\ UNCHANGED << tcbVars, quad_to_socket, tun_panicked, table_lock, wbuf >>

\* a handle call begins: self.socket.lock().unwrap() in read, write or close;
\* the first application thread writes and closes, the second one reads
AppCall(th) ==
    /\ pc[th] = "ready"
    /\ HandleExists
    /\ tcb_lock = NoThread
    /\ IF panicked
       THEN /\ pc' = SetPc(th, "dead")
            /\ UNCHANGED << tcb_lock, wbuf >>
       ELSE /\ tcb_lock' = th
            /\ \/ /\ th = "app2"
                  /\ pc' = SetPc(th, "read_locked")
                  /\ UNCHANGED wbuf
               \/ /\ th = "app"
                  /\ pc' = SetPc(th, "close_locked")
                  /\ UNCHANGED wbuf
               \/ /\ th = "app"
                  /\ \E p \in 1..(MaxWritten - app_sent) :
                       wbuf' = [wbuf EXCEPT ![th] = p]
                  /\ pc' = SetPc(th, "write_locked")
    /\ UNCHANGED << tcbVars, quad_to_socket, tun_panicked, table_lock, hret >>

\* the handle call of th returns: the guard is dropped
Return(th, name, e, n) ==
    /\ pc' = SetPc(th, "ready")
    /\ hret' = [hret EXCEPT ![th] = [op |-> name, err |-> e, n |-> n]]
    /\ tcb_lock' = NoThread

\* the handle call of th waits on the condition variable
Wait(th, at) ==
    /\ pc' = SetPc(th, at)
    /\ tcb_lock' = condvar_wait(th)
    /\ UNCHANGED hret

\* Condvar::wait returns in th: it holds the mutex again, or the mutex is
\* poisoned and unwrap panics
Wake(th, from, to) ==
    /\ pc[th] = from
    /\ tcb_lock \in {NoThread, th}
    /\ IF panicked
       THEN /\ pc' = SetPc(th, "dead")
            /\ tcb_lock' = NoThread
       ELSE /\ pc' = SetPc(th, to)
            /\ tcb_lock' = th
    /\ UNCHANGED << tcbVars, quad_to_socket, tun_panicked, table_lock, wbuf,
                    hret >>

\* impl Read for TcpSocketWrapper: one pass of the loop
AppRead(th) ==
    /\ pc[th] = "read_locked"
    /\ LET r == read(tcb, MaxRecvStream)
       IN /\ Apply("read", NoPkt, MaxRecvStream, r, FALSE)
          /\ delivered' = delivered \o r.data
          /\ IF r.ret.err # "" THEN Return(th, "read", r.ret.err, 0)
             ELSE IF r.ret.n > 0 THEN Return(th, "read", "", r.ret.n)
             ELSE Wait(th, "read_wait")
    /\ UNCHANGED << overflow_checks, peer, app_sent, quad_to_socket,
                    tun_panicked, table_lock, wbuf >>

AppReadWake(th) == Wake(th, "read_wait", "read_locked")

\* impl Write for TcpSocketWrapper: one pass of the loop
AppWrite(th) ==
    /\ pc[th] = "write_locked"
    /\ LET r == write(tcb, Bytes(app_sent + 1, app_sent + wbuf[th]))
       IN /\ Apply("write", NoPkt, wbuf[th], r, FALSE)
          /\ app_sent' = app_sent + r.ret.n
          /\ IF r.panic
             THEN /\ pc' = SetPc(th, "dead")
                  /\ tcb_lock' = NoThread
                  /\ wbuf' = [wbuf EXCEPT ![th] = 0]
                  /\ UNCHANGED hret
             ELSE IF r.ret.err # ""
             THEN /\ Return(th, "write", r.ret.err, 0)
                  /\ wbuf' = [wbuf EXCEPT ![th] = 0]
             ELSE IF r.ret.n = wbuf[th]
             THEN /\ Return(th, "write", "", r.ret.n)
                  /\ wbuf' = [wbuf EXCEPT ![th] = 0]
             ELSE /\ Wait(th, "write_wait")
                  /\ wbuf' = [wbuf EXCEPT ![th] = @ - r.ret.n]
    /\ UNCHANGED << overflow_checks, peer, delivered, quad_to_socket,
                    tun_panicked, table_lock >>

AppWriteWake(th) == Wake(th, "write_wait", "write_locked")

\* TcpSocketWrapper::close
AppClose(th) ==
    /\ pc[th] = "close_locked"
    /\ Apply("close", NoPkt, 0, close(tcb), FALSE)
    /\ Return(th, "close", "", 0)
    /\ UNCHANGED << overflow_checks, peer, delivered, app_sent,
                    quad_to_socket, tun_panicked, table_lock, wbuf >>

\* 2 MSL pass while no thread is inside a TCB operation
ThrAdvanceTimeWait ==
    /\ tcb_lock = NoThread
    /\ AdvanceTimeWaitBy({(TimeWaitSecs + 1) * 1000})

InitThr == InitNew({0}, {0}, MaxStream)

NextThreads ==
    \/ DemuxIdleLock \/ DemuxIdleSocketLock \/ DemuxIdleTick
    \/ DemuxPktLock \/ DemuxPktSocketLock \/ DemuxOnPacket
    \/ AppConnLock \/ AppConnInsert \/ AppConnSocketLock
    \/ AppSocketConnect \/ AppConnWake
    \/ \E th \in AppThreads :
         \/ AppCall(th)
         \/ AppRead(th) \/ AppReadWake(th)
         \/ AppWrite(th) \/ AppWriteWake(th)
         \/ AppClose(th)
    \/ ThrAdvanceTimeWait

SpecThreads == InitThr /\ [][NextThreads]_vars

----------------------------------------------------------------------------
(* SpecConn: TunDevice::connect against a peer that accepts or refuses, *)
(* with every thread scheduled fairly                                   *)

\* what the peer answers to the SYN: its SYN-ACK, a RST, or an ACK that
\* does not match SND.NXT; afterwards the segments of ThrPkts
ConnPkts(t) ==
    IF t.state \in {"Listen", "SynSent"}
    THEN { Pkt(PeerSeq(0), t.send_next, {"S", "A"}, 1, << >>),
           Pkt(PeerSeq(0), t.send_next, {"R", "A"}, 1, << >>),
           Pkt(PeerSeq(0), wrapping_add(t.send_next, 1), {"A"}, 1, << >>) }
    ELSE ThrPkts(t)

ConnOnPacket == DemuxOp("pkt_tcb", "on_packet", ConnPkts(tcb))

NextConn ==
    \/ DemuxIdleLock \/ DemuxIdleSocketLock \/ DemuxIdleTick
    \/ DemuxPktLock \/ DemuxPktSocketLock \/ ConnOnPacket
    \/ AppConnLock \/ AppConnInsert \/ AppConnSocketLock
    \/ AppSocketConnect \/ AppConnWake

\* the operating system schedules every thread that can run, and a thread
\* waiting on the condition variable runs again once set_state has
\* notified it; poll returns after 10 ms at the latest, so the demux
\* loop starts one pass or the other again and again
FairConn ==
    /\ WF_vars(DemuxIdleLock \/ DemuxPktLock)
    /\ WF_vars(DemuxIdleSocketLock) /\ WF_vars(DemuxIdleTick)
    /\ WF_vars(DemuxPktSocketLock) /\ WF_vars(ConnOnPacket)
    /\ WF_vars(AppConnLock) /\ WF_vars(AppConnInsert)
    /\ WF_vars(AppConnSocketLock) /\ WF_vars(AppSocketConnect)
    /\ WF_vars(AppConnWake)

SpecConn == InitThr /\ [][NextConn]_vars /\ FairConn

----------------------------------------------------------------------------
(* Properties *)

\* C1: the bytes read() hands to the application are the peer's stream
\* bytes in sequence order, each byte once, none skipped: the i-th byte
\* delivered is the i-th byte of the stream.
C1_ReceiveInOrder ==
    \A i \in 1..Len(delivered) : delivered[i] = i

\* C2: no step moves SND.UNA backwards in cyclic order: it stays, or
\* advances by at most the distance from the old SND.UNA to SND.NXT.
C2_UnaMonotonic ==
    [][LET d == (tcb'.send_unack - tcb.send_unack + SeqMod) % SeqMod
           w == (tcb.send_next - tcb.send_unack + SeqMod) % SeqMod
       IN d <= w]_vars

\* an ACK has advanced SND.UNA on an established connection
C2_Witness ==
    /\ lastOp.op = "on_packet"
    /\ lastOp.st = "Established"
    /\ lastOp.una # tcb.send_unack
    /\ ~panicked

\* C3: every segment handed to transmit_payload carries a sequence number
\* in [SND.UNA, SND.NXT], in cyclic order, at the moment it is transmitted.
C3_SequenceClosure ==
    \A i \in 1..Len(out) :
       (out[i].sequence_number - out[i].snd_una + SeqMod) % SeqMod
         <= (out[i].snd_nxt - out[i].snd_una + SeqMod) % SeqMod

C5_Karn ==
    [][lastOp'.op \in {"on_packet", "tick"}
         => /\ (/\ lastOp'.op = "on_packet"
                /\ tcb'.send_unack # tcb.send_unack
                /\ tcb'.send_unack \in DOMAIN tcb.timers
                /\ tcb.timers[tcb'.send_unack].retransmitted)
                 => /\ tcb'.srtt = tcb.srtt
                    /\ tcb'.rttvar = tcb.rttvar
                    /\ tcb'.rto = tcb.rto
            /\ (/\ lastOp'.op = "on_packet"
                /\ \/ tcb'.srtt # tcb.srtt
                   \/ tcb'.rttvar # tcb.rttvar
                   \/ tcb'.rto # tcb.rto)
                 => /\ tcb'.send_unack \in DOMAIN tcb.timers
                    /\ ~tcb.timers[tcb'.send_unack].retransmitted
            /\ \A seq \in DOMAIN tcb.timers \cap DOMAIN tcb'.timers :
                 tcb.timers[seq].retransmitted
                   => tcb'.timers[seq].retransmitted]_vars

\* an ACK has just advanced SND.UNA to the key of a retransmitted entry
C5_Witness ==
    /\ lastOp.op = "on_packet"
    /\ lastOp.una # tcb.send_unack
    /\ tcb.send_unack \in DOMAIN tcb.timers
    /\ tcb.timers[tcb.send_unack].retransmitted
    /\ tcb.rto > InitialRto

\* C6: a tick that retransmits the SYN doubles rto up to the cap of 60 s,
\* marks the entry retransmitted and restarts its clock; nothing else
\* changes rto while the SYN is unacknowledged, so after k retransmissions
\* rto is min(2^k, 60) s.
C6_RtoBackoff ==
    /\ [](tcb.rto \in { Min(2^k * InitialRto, RtoCap) : k \in 0..7 })
    /\ [][IF lastOp'.op = "tick" /\ out' # << >>
          THEN /\ tcb'.rto = Min(2 * tcb.rto, RtoCap)
               /\ tcb'.timers[tcb.syn_seq].retransmitted
               /\ tcb'.timers[tcb.syn_seq].age = 0
          ELSE tcb'.rto = tcb.rto]_vars

\* the retransmission that takes rto from 32 s to the cap
C6_Witness ==
    /\ lastOp.op = "tick"
    /\ out # << >>
    /\ tcb.rto = RtoCap
    /\ tcb.timers[tcb.syn_seq].retransmitted

\* C7: every key of quad_to_socket has a local port in [10000, 65535], and
\* no two keys share a local port.
C7_PortRangeAndUnique ==
    \A q \in quad_to_socket :
       /\ q.local \in PortLow..PortHigh
       /\ \A r \in quad_to_socket : r.local = q.local => r = q

\* C8: on_packet on a CLOSED connection leaves the TCB as it was, and
\* transmits nothing for a segment with RST and exactly one RST for a
\* segment without.
C8_IdempotentRstOnClosed ==
    [][(tcb.state = "Closed" /\ lastOp'.op = "on_packet")
         => /\ tcb' = tcb
            /\ IF lastOp'.pkt.rst THEN out' = << >>
               ELSE Len(out') = 1 /\ out'[1].rst]_vars

\* C9: a RST emitted from CLOSED for a segment without ACK has SEQ 0,
\* ACK number segment.SEQ + segment.LEN and the ACK flag set; for a segment
\* with ACK it has SEQ equal to the segment's ACK number and the ACK flag
\* clear.
C9_RstReplyFields ==
    [][(tcb.state = "Closed" /\ lastOp'.op = "on_packet")
         => \A i \in 1..Len(out') :
              LET pkt == lastOp'.pkt
                  rst == out'[i]
              IN IF ~pkt.ack
                 THEN /\ rst.sequence_number = 0
                      /\ rst.acknowledgment_number =
                           (pkt.sequence_number + Len(pkt.payload)) % SeqMod
                      /\ rst.ack
                 ELSE /\ rst.sequence_number = pkt.acknowledgment_number
                      /\ ~rst.ack]_vars

\* C10: in SYN_SENT a SYN-ACK whose acknowledgment number is SND.NXT sets
\* RCV.NXT to segment.SEQ + 1 (mod the sequence space), SND.UNA to the
\* segment's ACK number, sizes the send ring to the advertised window,
\* enters ESTABLISHED, and answers with one pure ACK (no SYN, FIN, RST or
\* payload) with SEQ = ISS + 1 and ACK number = segment.SEQ + 1.
C10_Handshake ==
    [][(/\ tcb.state = "SynSent"
        /\ lastOp'.op = "on_packet"
        /\ lastOp'.pkt.syn /\ lastOp'.pkt.ack /\ ~lastOp'.pkt.rst
        /\ lastOp'.pkt.acknowledgment_number = tcb.send_next)
         => LET pkt == lastOp'.pkt
            IN /\ tcb'.recv_next = (pkt.sequence_number + 1) % SeqMod
               /\ tcb'.send_unack = pkt.acknowledgment_number
               /\ Len(tcb'.send_window) = pkt.window_size
               /\ tcb'.state = "Established"
               /\ Len(out') = 1
               /\ ~out'[1].syn /\ ~out'[1].fin /\ ~out'[1].rst
               /\ out'[1].ack
               /\ out'[1].payload = << >>
               /\ out'[1].sequence_number = (tcb.syn_seq + 1) % SeqMod
               /\ out'[1].acknowledgment_number =
                    (pkt.sequence_number + 1) % SeqMod]_vars

\* the SYN-ACK has just been accepted, with a peer sequence number whose
\* successor wraps
C10_Witness ==
    /\ lastOp.op = "on_packet"
    /\ lastOp.st = "SynSent"
    /\ lastOp.pkt.syn /\ lastOp.pkt.ack
    /\ tcb.state = "Established"
    /\ Len(out) = 1

\* C11: in SYN_SENT a segment with ACK, without RST, whose acknowledgment
\* number is not SND.NXT is answered with exactly one RST with SEQ =
\* segment.ACK and the SYN and ACK flags clear; the state becomes CLOSE_WAIT
\* and SND.UNA, SND.NXT and RCV.NXT stay as they were.
C11_StrayAckMismatch ==
    [][(/\ tcb.state = "SynSent"
        /\ lastOp'.op = "on_packet"
        /\ lastOp'.pkt.ack /\ ~lastOp'.pkt.rst
        /\ lastOp'.pkt.acknowledgment_number # tcb.send_next)
         => /\ Len(out') = 1
            /\ out'[1].rst /\ ~out'[1].syn /\ ~out'[1].ack
            /\ out'[1].sequence_number = lastOp'.pkt.acknowledgment_number
            /\ tcb'.state = "CloseWait"
            /\ tcb'.send_unack = tcb.send_unack
            /\ tcb'.send_next = tcb.send_next
            /\ tcb'.recv_next = tcb.recv_next]_vars

\* a SYN-ACK with a wrong acknowledgment number has just been reset
C11_Witness ==
    /\ lastOp.op = "on_packet"
    /\ lastOp.st = "SynSent"
    /\ lastOp.pkt.syn /\ lastOp.pkt.ack /\ ~lastOp.pkt.rst
    /\ lastOp.pkt.acknowledgment_number # tcb.send_next
    /\ tcb.state = "CloseWait"
    /\ Len(out) = 1

\* C12: close() in ESTABLISHED enters FIN_WAIT_1 and transmits nothing; a
\* tick in FIN_WAIT_1 that finds the retransmission queue empty and no FIN
\* sent yet transmits one FIN with SEQ = SND.NXT and records it in fin_seq;
\* the peer's ACK of that FIN (ACK number fin_seq + 1) moves FIN_WAIT_1 to
\* FIN_WAIT_2; the peer's FIN at RCV.NXT moves FIN_WAIT_2 to TIME_WAIT; and
\* a tick more than 60 s after TIME_WAIT was entered returns cleanup.
C12_OrderlyClose ==
    [][/\ (lastOp'.op = "close" /\ tcb.state = "Established")
            => tcb'.state = "FinWait1" /\ out' = << >>
       /\ (/\ lastOp'.op = "tick"
           /\ tcb.state = "FinWait1"
           /\ tcb.fin_seq = None
           /\ DOMAIN purge_timers(tcb).timers = {})
            => /\ Len(out') = 1
               /\ out'[1].fin
               /\ out'[1].sequence_number = tcb.send_next
               /\ tcb'.fin_seq = Some(tcb.send_next)
               /\ tcb'.state = "FinWait1"
       /\ (/\ lastOp'.op = "on_packet"
           /\ tcb.state = "FinWait1"
           /\ IsSome(tcb.fin_seq)
           /\ lastOp'.pkt.ack /\ ~lastOp'.pkt.fin
           /\ lastOp'.pkt.sequence_number = tcb.recv_next
           /\ lastOp'.pkt.acknowledgment_number
                = (Unwrap(tcb.fin_seq) + 1) % SeqMod)
            => tcb'.state = "FinWait2"
       /\ (/\ lastOp'.op = "on_packet"
           /\ tcb.state = "FinWait2"
           /\ lastOp'.pkt.ack /\ lastOp'.pkt.fin
           /\ lastOp'.pkt.sequence_number = tcb.recv_next)
            => tcb'.state = "TimeWait"
       /\ (/\ lastOp'.op = "tick"
           /\ tcb.state = "TimeWait"
           /\ Unwrap(tcb.time_wait_instant) > TimeWaitSecs * 1000)
            => lastOp'.ret.cleanup]_vars

\* C14: write in ESTABLISHED with a payload of P bytes returns n with
\* 0 <= n <= P, copies the first n payload bytes into the ring from index
\* SND.NXT mod W on, advances SND.NXT by n (wrapping), and for n > 0
\* transmits exactly one PSH segment with SEQ = old SND.NXT and those n
\* bytes; for n = 0 it transmits nothing.
C14_ShortWrite ==
    [][(lastOp'.op = "write" /\ tcb.state = "Established")
         => LET P == lastOp'.arg
                n == lastOp'.ret.n
                W == Len(tcb.send_window)
            IN /\ ~panicked'
               /\ lastOp'.ret.err = ""
               /\ n <= P
               /\ \A i \in 0..(n - 1) :
                    tcb'.send_window[((tcb.send_next + i) % W) + 1]
                      = app_sent + i + 1
               /\ tcb'.send_next = (tcb.send_next + n) % SeqMod
               /\ IF n > 0
                  THEN /\ Len(out') = 1
                       /\ out'[1].psh
                       /\ out'[1].sequence_number = tcb.send_next
                       /\ out'[1].payload = Bytes(app_sent + 1, app_sent + n)
                  ELSE out' = << >>]_vars

\* C15: write in a state other than ESTABLISHED returns NotConnected,
\* transmits nothing and changes no field of the TCB; a read that returns
\* NotConnected transmits nothing and changes no field either.
C15_NotConnectedUnaltered ==
    [][/\ (lastOp'.op = "write" /\ tcb.state # "Established")
            => /\ lastOp'.ret.err = "NotConnected"
               /\ tcb' = tcb
               /\ out' = << >>
               /\ app_sent' = app_sent
       /\ (lastOp'.op = "read" /\ lastOp'.ret.err = "NotConnected")
            => /\ tcb' = tcb
               /\ out' = << >>
               /\ delivered' = delivered]_vars

\* a write has just been refused after the application closed
C15_Witness ==
    /\ lastOp.op = "write"
    /\ lastOp.ret.err = "NotConnected"
    /\ tcb.state = "FinWait1"

C20_AcceptabilityCyclic ==
    [][lastOp'.op = "on_packet"
         => LET pkt == lastOp'.pkt
                S == pkt.sequence_number
                L == Len(pkt.payload)
                W == tcb.header.window_size
                InWindow(x) == (x - tcb.recv_next + SeqMod) % SeqMod < W
                ok == InWindow(S) \/ (L > 0 /\ InWindow((S + L - 1) % SeqMod))
            IN /\ acceptable(tcb, pkt) <=> ok
               /\ L = 0 => (out' = << >> <=> ok)]_vars

\* C13: when the idle pass has called tick on the connection's TCB and tick
\* returned cleanup, or the TCB was in CLOSED after the handle was handed
\* out, the pass ends with the four-tuple removed from quad_to_socket.
C13_FinishedLeaveTable ==
    [][(/\ pc["demux"] = "idle_tcb"
        /\ pc'["demux"] = "poll"
        /\ \/ lastOp'.ret.cleanup
           \/ tcb.state = "Closed" /\ HandleExists)
         => quad_to_socket' = {}]_vars

\* C17: a pass of the handle read that finds CLOSE_WAIT and an empty
\* recv_window returns 0 to the caller instead of waiting, and the handle
\* read returns 0 in no other case.
C17_HandleReadEof ==
    [][\A th \in AppThreads :
         pc[th] = "read_locked" /\ pc'[th] # "read_locked"
           => LET eof == tcb.state = "CloseWait" /\ tcb.recv_window = << >>
                  zero == /\ pc'[th] = "ready"
                          /\ hret'[th] = [op |-> "read", err |-> "", n |-> 0]
              IN eof <=> zero]_vars

\* C18: no thread holds the table lock while it holds the TCB lock, that is
\* while it executes a TCB operation.
C18_TableLockDiscipline ==
    \A th \in Threads : ~(table_lock = th /\ tcb_lock = th)

\* C19: no thread takes the table lock while it holds the TCB lock; a thread
\* inside a condition wait does not hold the TCB lock; and the holder of the
\* TCB lock is inside a TCB operation, which takes no lock, while the holder
\* of the table lock waits for the TCB lock at most: no two threads wait for
\* each other's lock.
C19_LockOrder ==
    /\ [][\A th \in Threads :
            table_lock' = th /\ table_lock # th => tcb_lock # th]_vars
    /\ [](\A th \in AppThreads :
            pc[th] \in {"conn_wait", "read_wait", "write_wait"}
              => tcb_lock # th)
    /\ [](\A th \in Threads :
            /\ tcb_lock = th
                 => pc[th] \in {"idle_tcb", "pkt_tcb", "conn_tcb",
                                "read_locked", "write_locked", "close_locked"}
            /\ table_lock = th
                 => pc[th] \in {"idle_table", "pkt_table", "conn_table",
                                "idle_tcb", "pkt_tcb"})

\* the demux loop holds both locks while the reader is inside its
\* condition wait and the writer waits for the TCB lock
C19_Witness ==
    /\ table_lock = "demux" /\ tcb_lock = "demux"
    /\ pc["app2"] = "read_wait"
    /\ pc["app"] = "ready"

\* C21: no addition to a sequence value aborts or leaves the 32-bit range:
\* TcpSocket::new succeeds for every ISS with SND.NXT = ISS + 1 modulo the
\* sequence space, and an on_packet step (the todo!() branches for LISTEN
\* and for a SYN aside) never panics; the RST sent from CLOSED for a segment
\* without ACK acknowledges SEQ + LEN modulo the sequence space.
C21_SequenceArithmeticWraps ==
    /\ [](lastOp.op = "new"
            => /\ ~panicked
               /\ tcb.send_next = (tcb.send_unack + 1) % SeqMod)
    /\ [][(/\ lastOp'.op = "on_packet"
           /\ tcb.state # "Listen"
           /\ ~lastOp'.pkt.syn)
            => /\ ~panicked'
               /\ (tcb.state = "Closed" /\ ~lastOp'.pkt.rst
                     /\ ~lastOp'.pkt.ack)
                    => /\ Len(out') = 1
                       /\ out'[1].acknowledgment_number =
                            (lastOp'.pkt.sequence_number
                               + Len(lastOp'.pkt.payload)) % SeqMod]_vars

\* C22: in a synchronized state a segment with RST that lies in the cyclic
\* window [RCV.NXT, RCV.NXT + W) closes the connection when its SEQ is
\* RCV.NXT and otherwise draws one challenge ACK (SEQ = SND.NXT,
\* ACK = RCV.NXT) with the TCB unchanged; a RST outside the window draws
\* nothing and changes nothing; the TCB reaches CLOSED by a RST only when
\* SEQ = RCV.NXT, and the RST's ACK number and payload are never processed.
C22_RstSynchronized ==
    [][(/\ lastOp'.op = "on_packet"
        /\ lastOp'.pkt.rst
        /\ tcb.state \in {"Established", "FinWait1", "FinWait2", "CloseWait",
                          "Closing", "LastAck", "TimeWait"})
         => LET pkt == lastOp'.pkt
                S == pkt.sequence_number
                L == Len(pkt.payload)
                W == tcb.header.window_size
                InWindow(x) == (x - tcb.recv_next + SeqMod) % SeqMod < W
                ok == InWindow(S) \/ (L > 0 /\ InWindow((S + L - 1) % SeqMod))
            IN /\ ~panicked'
               /\ IF ~ok THEN tcb' = tcb /\ out' = << >>
                  ELSE IF S = tcb.recv_next
                  THEN tcb' = [tcb EXCEPT !.state = "Closed"] /\ out' = << >>
                  ELSE /\ tcb' = tcb
                       /\ Len(out') = 1
                       /\ out'[1].sequence_number = tcb.send_next
                       /\ out'[1].acknowledgment_number = tcb.recv_next
                       /\ out'[1].ack /\ ~out'[1].rst
                       /\ out'[1].payload = << >>]_vars

\* C23: a segment with FIN and ACK, SEQ = RCV.NXT, inside the window, makes
\* on_packet advance RCV.NXT by one and transmit one ACK with SEQ = SND.NXT
\* and the new RCV.NXT; ESTABLISHED goes to CLOSE_WAIT, FIN_WAIT_2 to
\* TIME_WAIT, FIN_WAIT_1 to TIME_WAIT when the segment's ACK number covers
\* our FIN and to CLOSING when it does not, and TIME_WAIT restarts its clock.
C23_PeerFinTransitions ==
    [][(/\ lastOp'.op = "on_packet"
        /\ lastOp'.pkt.fin /\ lastOp'.pkt.ack
        /\ ~lastOp'.pkt.rst /\ ~lastOp'.pkt.syn
        /\ lastOp'.pkt.payload = << >>
        /\ lastOp'.pkt.sequence_number = tcb.recv_next
        /\ tcb.header.window_size > 0
        /\ tcb.state \in {"Established", "FinWait1", "FinWait2", "TimeWait"})
         => LET pkt == lastOp'.pkt
                our_fin_acked ==
                    /\ IsSome(tcb.fin_seq)
                    /\ pkt.acknowledgment_number
                         = (Unwrap(tcb.fin_seq) + 1) % SeqMod
            IN /\ ~panicked'
               /\ tcb'.recv_next = (tcb.recv_next + 1) % SeqMod
               /\ Len(out') = 1
               /\ out'[1].ack /\ ~out'[1].fin /\ ~out'[1].rst
               /\ out'[1].sequence_number = tcb'.send_next
               /\ out'[1].acknowledgment_number = tcb'.recv_next
               /\ tcb'.state =
                    CASE tcb.state = "Established" -> "CloseWait"
                      [] tcb.state = "FinWait2" -> "TimeWait"
                      [] tcb.state = "FinWait1" ->
                           IF our_fin_acked THEN "TimeWait" ELSE "Closing"
                      [] OTHER -> "TimeWait"
               /\ tcb'.state = "TimeWait"
                    => tcb'.time_wait_instant = Some(0)]_vars

\* C24: after a tick (so after its purge) the timers map is not empty while
\* written bytes are unacknowledged (SND.UNA # SND.NXT) or a FIN has been
\* transmitted and the connection has not moved on from FIN_WAIT_1: every
\* outstanding segment still has its timer.
C24_TimerCoverage ==
    (/\ lastOp.op = "tick" /\ ~panicked
     /\ \/ tcb.send_unack # tcb.send_next
        \/ IsSome(tcb.fin_seq) /\ tcb.state = "FinWait1")
      => DOMAIN tcb.timers # {}

\* C25: a tick in FIN_WAIT_1 that transmits the FIN for the first time does
\* so only when SND.UNA = SND.NXT: every written byte is acknowledged.
C25_FinAfterAllDataAcked ==
    [][(/\ lastOp'.op = "tick"
        /\ tcb.state = "FinWait1"
        /\ tcb.fin_seq = None
        /\ IsSome(tcb'.fin_seq))
         => /\ Len(out') = 1 /\ out'[1].fin
            /\ tcb.send_unack = tcb.send_next]_vars

\* C26: a tick that finds the first timer (key K, neither the SYN's nor the
\* FIN's) expired transmits exactly one segment, with SEQ = K, PSH set and
\* as payload the bytes the application wrote for the sequence numbers
\* K .. SND.NXT - 1, in order.
C26_RetransmissionContent ==
    [][(/\ lastOp'.op = "tick"
        /\ DOMAIN purge_timers(tcb).timers # {}
        /\ LET K == FirstKey(purge_timers(tcb).timers)
           IN /\ purge_timers(tcb).timers[K].age >= tcb.rto
              /\ K # tcb.syn_seq
              /\ tcb.fin_seq = None)
         => LET K == FirstKey(purge_timers(tcb).timers)
                n == (tcb.send_next - K + SeqMod) % SeqMod
            IN /\ ~panicked'
               /\ Len(out') = 1
               /\ out'[1].sequence_number = K
               /\ out'[1].psh
               /\ out'[1].payload = Bytes(app_sent - n + 1, app_sent)]_vars

\* C27: when on_packet has taken in an in-order payload segment (RCV.NXT
\* moved), recv_window has grown by exactly the stream bytes RCV.NXT moved
\* over, each once, and no key of partial_segments is at or behind the new
\* RCV.NXT in the cyclic order of sequence numbers.
C27_PartialSegmentsPruned ==
    [][(lastOp'.op = "on_packet" /\ tcb'.recv_next # tcb.recv_next)
         => LET n == (tcb'.recv_next - tcb.recv_next + SeqMod) % SeqMod
            IN /\ tcb'.recv_window
                    = tcb.recv_window \o Bytes(TakenIn + 1, TakenIn + n)
               /\ \A k \in DOMAIN tcb'.partial_segments :
                    (k - tcb'.recv_next + SeqMod) % SeqMod
                       \in 1..(SeqMod \div 2 - 1)]_vars

\* C28: close transmits nothing; it moves ESTABLISHED to FIN_WAIT_1 and
\* CLOSE_WAIT to LAST_ACK; in SYN_SENT it aborts the connection: the TCB
\* leaves SYN_SENT and keeps no timer that would retransmit the SYN; in
\* every other state it changes nothing.
C28_CloseTransitions ==
    [][lastOp'.op = "close"
         => /\ out' = << >>
            /\ ~panicked'
            /\ CASE tcb.state = "Established" ->
                      tcb' = [tcb EXCEPT !.state = "FinWait1"]
                 [] tcb.state = "CloseWait" ->
                      tcb' = [tcb EXCEPT !.state = "LastAck"]
                 [] tcb.state = "SynSent" ->
                      /\ tcb'.state # "SynSent"
                      /\ tcb.syn_seq \notin DOMAIN tcb'.timers
                 [] OTHER -> tcb' = tcb]_vars

\* C29: the demux loop never invokes on_packet on a TCB that is still in
\* LISTEN, the state TcpSocket::new leaves it in until connect() has run.
C29_SynSentBeforeDemux ==
    [][lastOp'.op = "on_packet" => tcb.state # "Listen"]_vars

\* C30: on an established connection the number of unacknowledged bytes,
\* SND.NXT - SND.UNA modulo the sequence space, never exceeds the length W
\* of send_window: no write takes more bytes than the ring has free slots.
C30_RingCapacity ==
    (~panicked /\ tcb.state = "Established")
      => (tcb.send_next - tcb.send_unack + SeqMod) % SeqMod
           <= Len(tcb.send_window)

\* C31: a segment with ACK, FIN and L > 0 payload bytes whose SEQ is RCV.NXT,
\* arriving in ESTABLISHED, FIN_WAIT_1 or FIN_WAIT_2 with nothing stored out
\* of order, has its payload appended to recv_window and its FIN consumed:
\* RCV.NXT advances by L + 1 and the state becomes the one the same segment
\* without its payload would lead to.
C31_PayloadWithFin ==
    [][(/\ lastOp'.op = "on_packet"
        /\ lastOp'.pkt.fin /\ lastOp'.pkt.ack
        /\ ~lastOp'.pkt.rst /\ ~lastOp'.pkt.syn
        /\ lastOp'.pkt.payload # << >>
        /\ lastOp'.pkt.sequence_number = tcb.recv_next
        /\ tcb.header.window_size > 0
        /\ DOMAIN tcb.partial_segments = {}
        /\ tcb.state \in {"Established", "FinWait1", "FinWait2"})
         => LET pkt == lastOp'.pkt
                bare == [pkt EXCEPT !.payload = << >>]
            IN /\ ~panicked'
               /\ tcb'.recv_window = tcb.recv_window \o pkt.payload
               /\ tcb'.recv_next
                    = (tcb.recv_next + Len(pkt.payload) + 1) % SeqMod
               /\ tcb'.state = on_packet(tcb, bare).tcb.state]_vars

\* C32: with the idle pass ticking fairly, a TCB in LAST_ACK (close() was
\* called in CLOSE_WAIT) eventually has its FIN transmitted, or is CLOSED.
C32_PassiveCloseCompletes ==
    (tcb.state = "LastAck") ~> (IsSome(tcb.fin_seq) \/ tcb.state = "Closed")

\* C33: with the idle pass ticking fairly, once the peer's FIN has been
\* taken in FIN_WAIT_1 and the peer has then acknowledged our transmitted
\* FIN (ACK number fin_seq + 1), the TCB eventually is in TIME_WAIT.
C33_SimultaneousCloseCompletes ==
    (/\ lastOp.op = "on_packet"
     /\ lastOp.st = "FinWait1"
     /\ IsSome(tcb.fin_seq)
     /\ lastOp.pkt.ack /\ ~lastOp.pkt.fin
     /\ lastOp.pkt.sequence_number = tcb.recv_next
     /\ lastOp.pkt.acknowledgment_number = (Unwrap(tcb.fin_seq) + 1) % SeqMod
     /\ tcb.recv_next = PeerSeq(peer.len + 2))
      ~> (tcb.state = "TimeWait")

\* C34: on_packet moves FIN_WAIT_1 to FIN_WAIT_2, LAST_ACK to CLOSED (but
\* for a RST) and CLOSING to TIME_WAIT only for a segment whose ACK number
\* is fin_seq + 1, the number that covers our FIN.
C34_FinAckCoversFin ==
    [][(/\ lastOp'.op = "on_packet"
        /\ ~lastOp'.pkt.rst
        /\ \/ tcb.state = "FinWait1" /\ tcb'.state = "FinWait2"
           \/ tcb.state = "LastAck" /\ tcb'.state = "Closed"
           \/ tcb.state = "Closing" /\ tcb'.state = "TimeWait")
         => /\ IsSome(tcb.fin_seq)
            /\ lastOp'.pkt.ack
            /\ lastOp'.pkt.acknowledgment_number
                 = (Unwrap(tcb.fin_seq) + 1) % SeqMod]_vars

\* C35: every segment without SYN and without RST that the TCB transmits
\* with the ACK flag carries RCV.NXT, as it is when the segment is handed to
\* transmit_payload, as its acknowledgment number.
C35_AckNumbersCurrent ==
    \A i \in 1..Len(out) :
       (out[i].ack /\ ~out[i].rst /\ ~out[i].syn)
         => out[i].acknowledgment_number = out[i].rcv_nxt

\* C36: TcpSocketWrapper::connect returns only when the TCB is ESTABLISHED,
\* and a connect that waits while the handshake has ended without
\* establishment (CLOSED after a RST, CLOSE_WAIT after an ACK that does not
\* match SND.NXT) eventually stops waiting.
C36_ConnectReturns ==
    /\ [][(pc["app"] \in {"conn_tcb", "conn_wait"} /\ pc'["app"] = "ready")
            => tcb'.state = "Established"]_vars
    /\ (/\ pc["app"] = "conn_wait"
        /\ ~panicked
        /\ lastOp.op = "on_packet" /\ lastOp.st = "SynSent"
        /\ tcb.state \in {"Closed", "CloseWait"})
         ~> (pc["app"] # "conn_wait")

====
